---- MODULE Spec2Model ----
(***************************************************************************)
(* Model of src/src/tetris_project/controller.py: the Controller base      *)
(* class, HumanController, the DQN network with its checkpoint save/load,  *)
(* DQNTrainerController and DQNPlayerController.                           *)
(*                                                                         *)
(* Numbers.  Network parameters are integers (units of the learning rate), *)
(* scores are fixed-point integers in units of 1/Scale, epsilon and the    *)
(* uniform draw are numerators over EpsDen.  The hidden widths 128 and 64  *)
(* and the input size are reduced to one unit each, so fc1 and fc2 hold    *)
(* one weight and one bias, and fc3 holds one weight and one bias per      *)
(* output.                                                                 *)
(***************************************************************************)
EXTENDS Integers, Sequences, FiniteSets, TLC

VARIABLES actions, action_map, input_map, epsilon, model, other, file, snap,
          hpc, hist, printed, hret, last

vars == <<actions, action_map, input_map, epsilon, model, other, file, snap,
          hpc, hist, printed, hret, last>>

(* ------------------------------ bounds -------------------------------- *)
\* action ids range over 0..MaxId
MaxId == 2
\* tokens typed during one HumanController.get_action call
MaxInputs == 2
\* epsilon and the uniform draw are k/EpsDen
EpsDen == 2
\* the largest fc3 bias
BMax == 1
\* fixed-point resolution of the softmax scores
Scale == 100

(* ------------------------- Action (external) -------------------------- *)
Names == <<"Left", "Right", "Drop", "Rotate", "Hold", "Swap">>

Ids == 0..MaxId

Action(i) == [id |-> i, name |-> Names[i + 1]]

\* a second Action object carrying id 0 (ids are not validated by the code)
Alias == [id |-> 0, name |-> "Alias"]

NoAction == [id |-> -1, name |-> "none"]

Left == Action(0)

Right == Action(1)

Drop == Action(2)

GameActions == {Action(i) : i \in Ids}

AllActions == GameActions \cup {Alias}

UniqueIds(acts) == \A a, b \in acts : a.id = b.id => a = b

(* --------------------------- Controller ------------------------------- *)
\* every order in which Python may iterate the set
Orders(acts) ==
    {s \in [1..Cardinality(acts) -> acts] :
        \A i, j \in 1..Cardinality(acts) : i # j => s[i] # s[j]}

\* a wrong comprehension: keyed by position instead of by action.id
RECURSIVE BuildMapByPosition(_, _)
BuildMapByPosition(order, m) ==
    IF order = <<>> THEN m
    ELSE BuildMapByPosition(Tail(order),
            ((Cardinality(DOMAIN m)) :> Head(order)) @@ m)

\* {action.id: action for action in actions}: a later item overwrites
RECURSIVE BuildMap(_, _)
BuildMap(order, m) ==
    IF order = <<>> THEN m
    ELSE BuildMap(Tail(order), (Head(order).id :> Head(order)) @@ m)

EmptyMap == [i \in {} |-> NoAction]

ControllerInit(acts, order) ==
    /\ actions = acts
    /\ action_map = BuildMap(order, EmptyMap)

(* ------------------------- HumanController ---------------------------- *)
Tokens == {"l", "r", "x"}

InputMaps == UNION {[D -> AllActions] : D \in SUBSET Tokens}

\* self.input_map[action_input] and self.action_map[action.id] both succeed
Resolves(tok) ==
    /\ tok \in DOMAIN input_map
    /\ input_map[tok].id \in DOMAIN action_map

\* a lookup that returns the input_map object itself
HumanLookupDirect(tok) == input_map[tok]

HumanLookup(tok) == action_map[input_map[tok].id]

HumanCall ==
    /\ hpc \in {"idle", "returned", "EOFError"}
    /\ hpc' = "prompt"
    /\ hist' = <<>>
    /\ printed' = 0
    /\ hret' = NoAction
    /\ UNCHANGED <<actions, action_map, input_map, epsilon, model, other,
                   file, snap, last>>

\* an except clause that reports nothing
Unreported(n) == n

\* except KeyError: print("Invalid action"), one more message
Reported(n) == n + 1

\* one pass of the while loop with the line read from input()
HumanInput(tok) ==
    /\ hpc = "prompt"
    /\ Len(hist) < MaxInputs
    /\ hist' = Append(hist, tok)
    /\ IF Resolves(tok)
       THEN /\ hret' = HumanLookup(tok)
            /\ hpc' = "returned"
            /\ printed' = printed
       ELSE /\ printed' = Reported(printed)
            /\ hpc' = "prompt"
            /\ hret' = hret
    /\ UNCHANGED <<actions, action_map, input_map, epsilon, model, other,
                   file, snap, last>>

\* input() at end of input raises EOFError, which the loop does not catch
HumanEOF ==
    /\ hpc = "prompt"
    /\ hpc' = "EOFError"
    /\ UNCHANGED <<actions, action_map, input_map, epsilon, model, other,
                   file, snap, last, hist, printed, hret>>

(* ------------------------------- DQN ---------------------------------- *)
Features == {0, 1}

\* TetrisState (external): to_tensor() is the feature vector, of length one
States == {[x |-> f, score |-> 10 * f, turn |-> f + 1] : f \in Features}

ToTensor(s) == <<s.x>>

Range(q) == {q[i] : i \in DOMAIN q}

\* torch.max of a non-empty vector
RECURSIVE Max(_)
Max(q) ==
    IF Len(q) = 1 THEN q[1]
    ELSE IF Head(q) >= Max(Tail(q)) THEN Head(q) ELSE Max(Tail(q))

RECURSIVE Sum(_)
Sum(q) == IF q = <<>> THEN 0 ELSE Head(q) + Sum(Tail(q))

RECURSIVE Pow2(_)
Pow2(n) == IF n <= 0 THEN 1 ELSE 2 * Pow2(n - 1)

ReLU(v) == IF v > 0 THEN v ELSE 0

\* logits are never negative in the parameter vectors explored
RECURSIVE Exps(_)
Exps(z) == IF z = <<>> THEN <<>> ELSE <<Pow2(Head(z))>> \o Exps(Tail(z))

RECURSIVE Normalized(_, _)
Normalized(e, total) ==
    IF e = <<>> THEN <<>>
    ELSE <<(Scale * Head(e)) \div total>> \o Normalized(Tail(e), total)

\* nn.Softmax(dim=0) in fixed point, with base 2 in place of e
Softmax(z) == Normalized(Exps(z), Sum(Exps(z)))

\* a vector that is k at output j and zero elsewhere
RECURSIVE OneHot(_, _, _)
OneHot(out, j, k) ==
    IF out = 0 THEN <<>>
    ELSE Append(OneHot(out - 1, j, k), IF out = j THEN k ELSE 0)

\* the parameter vectors explored, for a network with `out` outputs
ParamSpace(out) ==
    [fc1w : {<<0>>, <<1>>},
     fc1b : {<<0>>},
     fc2w : {<<1>>},
     fc2b : {<<0>>},
     fc3w : {OneHot(out, 1, 1)},
     fc3b : {OneHot(out, j, k) : j \in 1..out, k \in 0..BMax}]

OutSize(p) == Len(p.fc3b)

\* a linear layer with one input: w[i] * h + b[i] for every output i
RECURSIVE Linear(_, _, _)
Linear(w, b, h) ==
    IF w = <<>> THEN <<>>
    ELSE <<Head(w) * h + Head(b)>> \o Linear(Tail(w), Tail(b), h)

\* fc1 -> ReLU -> fc2 -> ReLU -> fc3 -> Softmax
Forward(p, x) ==
    LET h1 == ReLU(Linear(p.fc1w, p.fc1b, x[1])[1])
        h2 == ReLU(Linear(p.fc2w, p.fc2b, h1)[1])
    IN  Softmax(Linear(p.fc3w, p.fc3b, h2))

\* an argmax that keeps the last maximum
RECURSIVE ArgMaxLastFrom(_, _, _)
ArgMaxLastFrom(q, i, best) ==
    IF i > Len(q) THEN best - 1
    ELSE ArgMaxLastFrom(q, i + 1, IF q[i] >= q[best] THEN i ELSE best)

ArgMaxLast(q) == ArgMaxLastFrom(q, 2, 1)

\* torch.argmax: zero-based index of the first maximal value
RECURSIVE ArgMaxFrom(_, _, _)
ArgMaxFrom(q, i, best) ==
    IF i > Len(q) THEN best - 1
    ELSE ArgMaxFrom(q, i + 1, IF q[i] > q[best] THEN i ELSE best)

ArgMax(q) == ArgMaxFrom(q, 2, 1)

(* ----------------------- record of the last call ---------------------- *)
NoLast ==
    [op |-> "none", who |-> "none", ok |-> TRUE, err |-> "none",
     act |-> NoAction, branch |-> "none", fwd |-> 0, sx |-> <<>>,
     nsx |-> <<>>, aid |-> -1, r |-> 0, q |-> <<>>, nq |-> <<>>,
     target |-> <<>>, loss |-> 0, val |-> 0, stepped |-> FALSE]

Returned(a) == [ok |-> TRUE, act |-> a, err |-> "none"]

Raised(e) == [ok |-> FALSE, act |-> NoAction, err |-> e]

Outcome(rec) == [ok |-> rec.ok, act |-> rec.act, err |-> rec.err]

WithOutcome(rec, o) == [rec EXCEPT !.ok = o.ok, !.act = o.act, !.err = o.err]

(* -------------------- DQNTrainerController.get_action ----------------- *)
Draws == 0..(EpsDen - 1)

Epsilons == 0..EpsDen

\* the comparison written the other way round
ExploreFlipped(u, eps) == u >= eps

\* np.random.rand() < self.epsilon
Explore(u, eps) == u < eps

\* self.action_map[torch.argmax(q_values).item()]
GreedyPick(q) ==
    IF ArgMax(q) \in DOMAIN action_map
    THEN Returned(action_map[ArgMax(q)])
    ELSE Raised("KeyError")

TrainerOutcome(s, u, c) ==
    IF Explore(u, epsilon) THEN Returned(c)
    ELSE GreedyPick(Forward(model, ToTensor(s)))

\* u is the uniform draw; np.random.choice draws c in the first branch only
TrainerResult(s, u) ==
    IF Explore(u, epsilon)
    THEN \E c \in actions :
            last' = WithOutcome([NoLast EXCEPT !.op = "trainer_get",
                                               !.branch = "explore",
                                               !.sx = ToTensor(s)],
                                TrainerOutcome(s, u, c))
    ELSE last' = WithOutcome([NoLast EXCEPT !.op = "trainer_get",
                                            !.branch = "greedy",
                                            !.fwd = 1,
                                            !.sx = ToTensor(s),
                                            !.q = Forward(model, ToTensor(s))],
                             TrainerOutcome(s, u, NoAction))

\* a get_action that also decays epsilon after each call
TrainerGetActionDecaying(s, u) ==
    /\ TrainerResult(s, u)
    /\ epsilon' = IF epsilon > 0 THEN epsilon - 1 ELSE 0
    /\ UNCHANGED <<actions, action_map, input_map, model, other,
                   file, snap, hpc, hist, printed, hret>>

TrainerGetAction(s, u) ==
    /\ TrainerResult(s, u)
    /\ UNCHANGED <<actions, action_map, input_map, epsilon, model, other,
                   file, snap, hpc, hist, printed, hret>>

(* -------------------- DQNPlayerController.get_action ------------------ *)
\* self.actions[k] on a Python set: sets do not support indexing
SetSubscript(acts, k) == Raised("TypeError")

PlayerOutcome(s) == SetSubscript(actions, ArgMax(Forward(model, ToTensor(s))))

PlayerGetAction(s) ==
    /\ last' = WithOutcome([NoLast EXCEPT !.op = "player_get",
                                          !.fwd = 1,
                                          !.sx = ToTensor(s),
                                          !.q = Forward(model, ToTensor(s))],
                           PlayerOutcome(s))
    /\ UNCHANGED <<actions, action_map, input_map, epsilon, model, other,
                   file, snap, hpc, hist, printed, hret>>

(* ---------------------- DQNTrainerController.train -------------------- *)
Rewards == {0, 1}

Abs(v) == IF v < 0 THEN -v ELSE v

\* a target with a discount factor of 0.9 on the next state's maximum
TargetQDiscounted(q, nq, aid, r) ==
    [q EXCEPT ![aid + 1] = r * Scale + (9 * Max(nq)) \div 10]

\* target_q_values = q_values.clone()
\* target_q_values[action.id] = reward + torch.max(next_q_values)
TargetQ(q, nq, aid, r) == [q EXCEPT ![aid + 1] = r * Scale + Max(nq)]

RECURSIVE SumSq(_, _)
SumSq(q, t) ==
    IF q = <<>> THEN 0
    ELSE (Head(q) - Head(t)) * (Head(q) - Head(t)) + SumSq(Tail(q), Tail(t))

\* nn.MSELoss(): mean of the squared differences
MSELoss(q, t) == SumSq(q, t) \div Len(q)

\* every entry of p2 is within one unit (the learning rate) of p's entry
Near(p, p2) ==
    /\ OutSize(p) = OutSize(p2)
    /\ Abs(p.fc1w[1] - p2.fc1w[1]) <= 1
    /\ Abs(p.fc1b[1] - p2.fc1b[1]) <= 1
    /\ Abs(p.fc2w[1] - p2.fc2w[1]) <= 1
    /\ Abs(p.fc2b[1] - p2.fc2b[1]) <= 1
    /\ \A i \in 1..OutSize(p) :
          /\ Abs(p.fc3w[i] - p2.fc3w[i]) <= 1
          /\ Abs(p.fc3b[i] - p2.fc3b[i]) <= 1

\* One step of an Adam optimizer created for this call (lr = 0.001) takes
\* p to p2: with no moment history each entry moves by at most the learning
\* rate, against its gradient, and stays put where the gradient is zero.
\* The gradient's signs are not computed: any such move is allowed.
AdamStep(p, p2) == Near(p, p2)

\* loss.backward(); optimizer.step(): no gradient, and so no move, when q
\* equals its target
Optimized(p, p2, q, t) == IF q = t THEN p2 = p ELSE AdamStep(p, p2)

\* the step of train(s, a, ns, r) once both forward passes have run; p2 is
\* what the optimizer leaves in the network
TrainUpdate(q, nq, sx, nsx, a, r, p2) ==
    LET rec == [NoLast EXCEPT !.op = "train", !.who = "model", !.fwd = 2,
                              !.sx = sx, !.nsx = nsx,
                              !.aid = a.id, !.r = r, !.q = q, !.nq = nq]
    IN  IF a.id >= Len(q)
        THEN /\ p2 = model
             /\ model' = model
             /\ last' = WithOutcome(rec, Raised("IndexError"))
        ELSE \E t \in {TargetQ(q, nq, a.id, r)} :
                /\ Optimized(model, p2, q, t)
                /\ model' = p2
                /\ last' = [rec EXCEPT !.target = t,
                                       !.loss = MSELoss(q, t),
                                       !.stepped = TRUE]

\* train(s, a, ns, r) for every action a of the set, every reward r and
\* every outcome p2 of the optimizer step
Train(s, ns) ==
    /\ \E q \in {Forward(model, ToTensor(s))} :
       \E nq \in {Forward(model, ToTensor(ns))} :
       \E a \in actions, r \in Rewards, p2 \in ParamSpace(OutSize(model)) :
          TrainUpdate(q, nq, ToTensor(s), ToTensor(ns), a, r, p2)
    /\ UNCHANGED <<actions, action_map, input_map, epsilon, other,
                   file, snap, hpc, hist, printed, hret>>

\* state.score + state.turn
Evaluate(s) ==
    /\ last' = [NoLast EXCEPT !.op = "evaluate", !.val = s.score + s.turn]
    /\ UNCHANGED <<actions, action_map, input_map, epsilon, model, other,
                   file, snap, hpc, hist, printed, hret>>

\* DQN.forward called on the trainer's network
ForwardCall(s) ==
    /\ last' = [NoLast EXCEPT !.op = "forward", !.fwd = 1,
                              !.sx = ToTensor(s),
                              !.q = Forward(model, ToTensor(s))]
    /\ UNCHANGED <<actions, action_map, input_map, epsilon, model, other,
                   file, snap, hpc, hist, printed, hret>>

(* --------------------------- DQN.save / load -------------------------- *)
Keys == <<"fc1.weight", "fc1.bias", "fc2.weight", "fc2.bias",
          "fc3.weight", "fc3.bias">>

Tensor(p, key) ==
    CASE key = "fc1.weight" -> p.fc1w
      [] key = "fc1.bias"   -> p.fc1b
      [] key = "fc2.weight" -> p.fc2w
      [] key = "fc2.bias"   -> p.fc2b
      [] key = "fc3.weight" -> p.fc3w
      [] key = "fc3.bias"   -> p.fc3b

\* self.state_dict(): the parameters by name, in registration order
StateDict(p) ==
    [i \in DOMAIN Keys |-> [key |-> Keys[i], val |-> Tensor(p, Keys[i])]]

Entry(sd, key) == sd[CHOOSE i \in DOMAIN sd : sd[i].key = key].val

\* load_state_dict is strict: same keys, same shapes
Compatible(p, sd) ==
    /\ {sd[i].key : i \in DOMAIN sd} = Range(Keys)
    /\ \A i \in DOMAIN Keys :
          Len(Entry(sd, Keys[i])) = Len(Tensor(p, Keys[i]))

\* a load that restores the weights and leaves the biases as they were
LoadWeightsOnly(p, sd) ==
    [fc1w |-> Entry(sd, "fc1.weight"), fc1b |-> p.fc1b,
     fc2w |-> Entry(sd, "fc2.weight"), fc2b |-> p.fc2b,
     fc3w |-> Entry(sd, "fc3.weight"), fc3b |-> p.fc3b]

\* load_state_dict: every parameter is overwritten by the entry of its name
LoadStateDict(p, sd) ==
    [fc1w |-> Entry(sd, "fc1.weight"), fc1b |-> Entry(sd, "fc1.bias"),
     fc2w |-> Entry(sd, "fc2.weight"), fc2b |-> Entry(sd, "fc2.bias"),
     fc3w |-> Entry(sd, "fc3.weight"), fc3b |-> Entry(sd, "fc3.bias")]

Nets == {"model", "other"}

Params(who) == IF who = "model" THEN model ELSE other

\* the checkpointed network has MaxId + 1 outputs; the loading network has
\* as many (identical architecture) or one fewer (shape mismatch)
CkptOuts == {MaxId, MaxId + 1} \ {0}

NoNet ==
    [fc1w |-> <<>>, fc1b |-> <<>>, fc2w |-> <<>>, fc2b |-> <<>>,
     fc3w |-> <<>>, fc3b |-> <<>>]

NoFile == <<>>

\* net.save(path): torch.save(self.state_dict(), path) overwrites the file
Save ==
    /\ file' = StateDict(model)
    /\ snap' = model
    /\ last' = [NoLast EXCEPT !.op = "save", !.who = "model"]
    /\ UNCHANGED <<actions, action_map, input_map, epsilon, model, other,
                   hpc, hist, printed, hret>>

\* other.load(path): self.load_state_dict(torch.load(path))
Load ==
    /\ IF file = NoFile
       THEN /\ last' = WithOutcome([NoLast EXCEPT !.op = "load", !.who = "other"],
                                   Raised("FileNotFoundError"))
            /\ other' = other
       ELSE IF ~Compatible(other, file)
       THEN /\ last' = WithOutcome([NoLast EXCEPT !.op = "load", !.who = "other"],
                                   Raised("RuntimeError"))
            /\ other' = other
       ELSE /\ last' = [NoLast EXCEPT !.op = "load", !.who = "other"]
            /\ other' = LoadStateDict(other, file)
    /\ UNCHANGED <<actions, action_map, input_map, epsilon, model, file, snap,
                   hpc, hist, printed, hret>>

\* the optimizer step of a train call on the trainer that wraps `who`
TrainStep(who) ==
    /\ \E p2 \in ParamSpace(OutSize(Params(who))) :
          /\ AdamStep(Params(who), p2)
          /\ IF who = "model"
             THEN model' = p2 /\ other' = other
             ELSE other' = p2 /\ model' = model
    /\ last' = [NoLast EXCEPT !.op = "train", !.who = who, !.stepped = TRUE]
    /\ UNCHANGED <<actions, action_map, input_map, epsilon, file, snap,
                   hpc, hist, printed, hret>>

(* --------------------------- specifications --------------------------- *)
NonEmpty(S) == SUBSET S \ {{}}

HumanIdle ==
    /\ hpc = "idle"
    /\ hist = <<>>
    /\ printed = 0
    /\ hret = NoAction

NoCheckpoint ==
    /\ file = NoFile
    /\ snap = NoNet

\* a HumanController after construction
InitHuman ==
    /\ \E acts \in NonEmpty(AllActions) :
          \E order \in Orders(acts) : ControllerInit(acts, order)
    /\ input_map \in InputMaps
    /\ epsilon = 0
    /\ model = NoNet
    /\ other = NoNet
    /\ NoCheckpoint
    /\ HumanIdle
    /\ last = NoLast

NextHuman ==
    \/ HumanCall
    \/ \E tok \in Tokens : HumanInput(tok)
    \/ HumanEOF

SpecHuman == InitHuman /\ [][NextHuman]_vars

\* a trainer and a player constructed over the same actions and the same
\* network, which has one output per action
InitDQN ==
    /\ \E acts \in NonEmpty(GameActions) :
          \E order \in Orders(acts) : ControllerInit(acts, order)
    /\ input_map = EmptyMap
    /\ epsilon \in Epsilons
    /\ model \in ParamSpace(Cardinality(actions))
    /\ other = NoNet
    /\ NoCheckpoint
    /\ HumanIdle
    /\ last = NoLast

NextDQN ==
    \/ \E s \in States, u \in Draws : TrainerGetAction(s, u)
    \/ \E s \in States : PlayerGetAction(s)
    \/ \E s \in States : Evaluate(s)
    \/ \E s \in States : ForwardCall(s)

SpecDQN == InitDQN /\ [][NextDQN]_vars

\* the same controllers over the full action set, with training; the
\* network has one output per action or one fewer
InitTrain ==
    /\ \E order \in Orders(GameActions) : ControllerInit(GameActions, order)
    /\ input_map = EmptyMap
    /\ epsilon = EpsDen - 1
    /\ model \in UNION {ParamSpace(out) : out \in CkptOuts}
    /\ other = NoNet
    /\ NoCheckpoint
    /\ HumanIdle
    /\ last = NoLast

NextTrain ==
    \/ \E s \in States, u \in Draws : TrainerGetAction(s, u)
    \/ \E s \in States : PlayerGetAction(s)
    \/ \E s \in States, ns \in States : Train(s, ns)
    \/ \E s \in States : Evaluate(s)
    \/ \E s \in States : ForwardCall(s)

SpecTrain == InitTrain /\ [][NextTrain]_vars

\* a network that is saved and a second network that loads the checkpoint
InitCkpt ==
    /\ \E order \in Orders(GameActions) : ControllerInit(GameActions, order)
    /\ input_map = EmptyMap
    /\ epsilon = 0
    /\ model \in ParamSpace(MaxId + 1)
    /\ other \in UNION {ParamSpace(out) : out \in CkptOuts}
    /\ NoCheckpoint
    /\ HumanIdle
    /\ last = NoLast

NextCkpt ==
    \/ Save
    \/ Load
    \/ \E who \in Nets : TrainStep(who)

SpecCkpt == InitCkpt /\ [][NextCkpt]_vars

(* ------------------------------ claims -------------------------------- *)
\* zero-based index of the first maximal score, stated without ArgMax
IsFirstMax(q, k) ==
    /\ k + 1 \in DOMAIN q
    /\ \A j \in DOMAIN q : q[j] <= q[k + 1]
    /\ \A j \in DOMAIN q : j < k + 1 => q[j] < q[k + 1]

\* the action ids are exactly 0..n-1 for a network with n outputs
DenseIds == DOMAIN action_map = 0..(OutSize(model) - 1)

\* C1: with ids 0..n-1, every DQNPlayerController.get_action call returns
\* successfully, with the action at the argmax index of the scores, the
\* same for the same state and parameters.
C1_PlayerReturnsArgmaxAction ==
    (last.op = "player_get" /\ DenseIds) =>
        /\ last.ok
        /\ last.act \in actions
        /\ IsFirstMax(last.q, last.act.id)
        /\ \A s \in States :
              ToTensor(s) = last.sx => Outcome(last) = PlayerOutcome(s)

\* C2: with epsilon = 0 the trainer's get_action and the player's get_action
\* give the same outcome, a returned action, for the same state, whatever
\* the random draws.
C2_TrainerEqualsPlayerAtZero ==
    (last.op = "player_get" /\ epsilon = 0) =>
        \A s \in States, u \in Draws, c \in actions :
            ToTensor(s) = last.sx =>
                /\ Outcome(last) = TrainerOutcome(s, u, c)
                /\ last.ok

\* C3 as stated: on the greedy branch get_action returns the action whose id
\* is the index of the first maximal score.
C3_GreedyReturnsArgmax ==
    (last.op = "trainer_get" /\ last.branch = "greedy") =>
        /\ last.ok
        /\ IsFirstMax(last.q, last.act.id)

\* C3 amended: on the greedy branch get_action returns the action whose id
\* is the index of the first maximal score when the action set holds an
\* action with that id, and raises KeyError when it holds none; with
\* actions Left(0), Right(1), Drop(2), epsilon = 0 and Right's score the
\* largest it returns Right.
C3_GreedyReturnsArgmaxIfPresent ==
    (last.op = "trainer_get" /\ last.branch = "greedy") =>
        /\ \E k \in 0..(Len(last.q) - 1) :
              /\ IsFirstMax(last.q, k)
              /\ IF \E a \in actions : a.id = k
                 THEN last.ok /\ last.act \in actions /\ last.act.id = k
                 ELSE ~last.ok /\ last.err = "KeyError"
        /\ (/\ actions = {Left, Right, Drop}
            /\ epsilon = 0
            /\ Len(last.q) = 3
            /\ last.q[2] > last.q[1]
            /\ last.q[2] > last.q[3]) => (last.ok /\ last.act = Right)

\* the scenario: three actions, epsilon = 0, Right's score the largest
C3_Witness ==
    /\ last.op = "trainer_get"
    /\ last.branch = "greedy"
    /\ actions = {Left, Right, Drop}
    /\ epsilon = 0
    /\ Len(last.q) = 3
    /\ last.q[2] > last.q[1]
    /\ last.q[2] > last.q[3]
    /\ last.act = Right

\* C4: with epsilon = 1 every get_action call of the trainer explores: it
\* returns a member of the action set and runs no forward pass.
C4_EpsilonOneExplores ==
    (last.op = "trainer_get" /\ epsilon = EpsDen) =>
        /\ last.branch = "explore"
        /\ last.ok
        /\ last.act \in actions
        /\ last.fwd = 0

C4_Witness ==
    /\ last.op = "trainer_get"
    /\ epsilon = EpsDen
    /\ last.branch = "explore"
    /\ last.act \in actions
    /\ Cardinality(actions) > 1

\* the positions of the tokens typed so far that did not resolve
Unresolved == {i \in DOMAIN hist : ~Resolves(hist[i])}

\* C5: during HumanController.get_action every token that does not resolve
\* (in particular every token that is no key of input_map) prints exactly
\* one message and prompts again, no KeyError reaches the caller, and the
\* call returns exactly at the first token that resolves; "x" then "l" with
\* input_map {l: Left, r: Right} prints one message and returns Left.
C5_InvalidTokenReprompts ==
    /\ hpc \in {"idle", "prompt", "returned", "EOFError"}
    /\ printed = Cardinality(Unresolved)
    /\ \A i \in DOMAIN hist :
          hist[i] \notin DOMAIN input_map => i \in Unresolved
    /\ \A i \in DOMAIN hist : i < Len(hist) => i \in Unresolved
    /\ hpc = "returned" <=> (hist # <<>> /\ Resolves(hist[Len(hist)]))
    /\ (/\ actions = {Left, Right}
        /\ input_map = ("l" :> Left @@ "r" :> Right)
        /\ hist = <<"x", "l">>) =>
            (printed = 1 /\ hpc = "returned" /\ hret = Left)

C5_Witness ==
    /\ actions = {Left, Right}
    /\ input_map = ("l" :> Left @@ "r" :> Right)
    /\ hist = <<"x", "l">>
    /\ printed = 1
    /\ hpc = "returned"
    /\ hret = Left

\* C6: for an action set with unique ids, action_map has exactly one entry
\* per action, its keys are the ids of the set, and action_map[a.id] = a.
C6_ActionMapOneEntryPerAction ==
    UniqueIds(actions) =>
        /\ DOMAIN action_map = {a.id : a \in actions}
        /\ Cardinality(DOMAIN action_map) = Cardinality(actions)
        /\ \A a \in actions : action_map[a.id] = a

C6_Witness ==
    /\ UniqueIds(actions)
    /\ actions = {Right, Drop, Alias}
    /\ action_map[0] = Alias
    /\ action_map[2] = Drop
    /\ hpc = "returned"
    /\ hret = Alias

\* C7: after net.save(path) and other.load(path) on a network of the same
\* architecture the load succeeds, other's parameters are net's parameters
\* at the time of the save, and forward agrees on every input, whatever
\* train steps net took after the save or other took before the load.
C7_LoadRestoresSavedParameters ==
    /\ (last.op = "load" /\ last.ok) =>
          /\ other = snap
          /\ \A x \in Features : Forward(other, <<x>>) = Forward(snap, <<x>>)
    /\ (last.op = "load" /\ file # NoFile /\ OutSize(other) = OutSize(snap))
          => last.ok

\* a load after the saved network has been trained away from the checkpoint
C7_Witness ==
    /\ last.op = "load"
    /\ last.ok
    /\ other = snap
    /\ model # snap
    /\ \E x \in Features : Forward(model, <<x>>) # Forward(other, <<x>>)

\* C8: only train changes the network parameters (get_action of either
\* controller, evaluate and forward leave them alone), and no operation
\* changes actions, action_map or epsilon.
C8_OnlyTrainMutatesParameters ==
    [][/\ last'.op # "train" => model' = model
       /\ actions' = actions
       /\ action_map' = action_map
       /\ epsilon' = epsilon]_vars

\* a train call whose optimizer step changed the scores of its own state
C8_Witness ==
    /\ last.op = "train"
    /\ last.stepped
    /\ Forward(model, last.sx) # last.q

\* C9: in train the target equals forward(state) except at action.id, where
\* it is reward + max(forward(next_state)), both forward passes on the
\* parameters before the optimizer step and without discount; the loss is
\* the squared difference at action.id alone, divided by the length.
C9_TargetVector ==
    [][(last'.op = "train" /\ last'.stepped) =>
          /\ last'.q = Forward(model, last'.sx)
          /\ last'.nq = Forward(model, last'.nsx)
          /\ DOMAIN last'.target = DOMAIN last'.q
          /\ \A i \in DOMAIN last'.target :
                last'.target[i] =
                    IF i = last'.aid + 1
                    THEN last'.r * Scale + Max(last'.nq)
                    ELSE last'.q[i]
          /\ last'.loss =
                ((last'.q[last'.aid + 1] - last'.target[last'.aid + 1])
                 * (last'.q[last'.aid + 1] - last'.target[last'.aid + 1]))
                \div Len(last'.q)]_vars

\* a train call with a positive reward, a positive loss and moved scores
C9_Witness ==
    /\ last.op = "train"
    /\ last.stepped
    /\ last.r = 1
    /\ last.loss > 0
    /\ last.target # last.q
    /\ Forward(model, last.nsx) # last.nq

\* C10: HumanController.get_action returns only members of the action set:
\* the value returned is action_map's action for the id of the token's
\* action, and a token whose action id is no key of action_map is handled
\* like an unknown token (one message, another prompt, nothing raised).
C10_HumanReturnsMember ==
    /\ hpc = "returned" =>
          /\ hret \in actions
          /\ hret = action_map[input_map[hist[Len(hist)]].id]
    /\ \A i \in DOMAIN hist :
          (/\ hist[i] \in DOMAIN input_map
           /\ input_map[hist[i]].id \notin DOMAIN action_map) =>
              /\ i \in Unresolved
              /\ printed >= 1
              /\ (i = Len(hist) => hpc \in {"prompt", "EOFError"} /\ hret = NoAction)

\* the token's action is an Alias object and action_map's Left is returned
C10_Witness ==
    /\ hpc = "returned"
    /\ input_map[hist[Len(hist)]] = Alias
    /\ hret = Left
    /\ printed = 1

====
